---- MODULE Spec2Model ----
(***************************************************************************)
(* Model of the "resources" example of intro-domain-driven: the Resource   *)
(* entity, the in-memory and JSON-file repositories, the UpdatingName use  *)
(* case, the CommandBus and the two command-line front ends.               *)
(*                                                                         *)
(* Python objects live in a heap (a sequence of Resource records, the      *)
(* address of an object is its index), so that copy.deepcopy and aliasing  *)
(* are observable.  A dict is a total function with an "absent" value.     *)
(* A JSON document is the set of its entries; only documents whose entries *)
(* are all well formed occur, so the iteration order of a dict is not      *)
(* modelled.                                                               *)
(***************************************************************************)
EXTENDS Integers, Sequences, FiniteSets, TLC

\* number of operations of one run
MaxSteps == 5

None == "None"
NoRef == 0
NoHandler == "no handler"

UUIDs == {1, 2}
UuidStr == (1 :> "53dd4178-17fa-4725-a5ef-1a217e9946b9") @@ (2 :> "18cc403e-a0a4-4a93-9123-4720c34fe005")
Names == {"RANDOM", "Lexicon Royale"}
Paths == {"resources.json", "other.json"}
Kinds == {"mem", "json"}
CmdTypes == {"UpdateName", "UpdateNameSubclass"}
Handlers == {"handler1", "handler2"}

\* ResourceType: member name -> value
ResourceTypeValue == [Corpus |-> "corpus", Lexicon |-> "lexicon"]
ResourceTypeMembers == DOMAIN ResourceTypeValue

\* ResourceType(x): a member is returned as it is, a value is looked up,
\* anything else raises ValueError
ResourceType(x) ==
    IF x \in ResourceTypeMembers THEN [ok |-> TRUE, exc |-> None, value |-> x]
    ELSE IF \E m \in ResourceTypeMembers : ResourceTypeValue[m] = x
         THEN [ok |-> TRUE, exc |-> None,
               value |-> CHOOSE m \in ResourceTypeMembers : ResourceTypeValue[m] = x]
         ELSE [ok |-> FALSE, exc |-> "ValueError", value |-> None]

\* UUID(s): parses the string form, ValueError if malformed
UUID(s) ==
    IF \E u \in UUIDs : UuidStr[u] = s
    THEN [ok |-> TRUE, exc |-> None, value |-> CHOOSE u \in UUIDs : UuidStr[u] = s]
    ELSE [ok |-> FALSE, exc |-> "ValueError", value |-> 0]

\* Resource.__init__(*, id, name, type_, comment=None), kw is the record of
\* keyword arguments of the call: an unknown or a missing keyword is a
\* TypeError, a str type_ is coerced by ResourceType
Resource(kw) ==
    IF ~(DOMAIN kw \subseteq {"id", "name", "type_", "comment"})
          \/ ~({"id", "name", "type_"} \subseteq DOMAIN kw)
    THEN [ok |-> FALSE, exc |-> "TypeError", value |-> None]
    ELSE LET t == ResourceType(kw.type_) IN
         IF ~t.ok THEN [ok |-> FALSE, exc |-> t.exc, value |-> None]
         ELSE [ok |-> TRUE, exc |-> None,
               value |-> [id |-> kw.id, name |-> kw.name, type |-> t.value,
                          comment |-> IF "comment" \in DOMAIN kw THEN kw.comment ELSE None]]

\* Resource.set_name on the object at address a
set_name_and_comment(h, a, name) == [h EXCEPT ![a].name = name, ![a].comment = None]
set_name(h, a, name) == [h EXCEPT ![a].name = name]

\* copy.deepcopy of the Resource at address a: a new object with equal fields
deepcopy_alias(h, a) == [heap |-> h, ref |-> a]
deepcopy(h, a) == [heap |-> Append(h, h[a]), ref |-> Len(h) + 1]

EmptyDict == [i \in UUIDs |-> NoRef]
Keys(res) == {i \in UUIDs : res[i] # NoRef}

\* InMemoryResourceRepository
InMemory_save_first(h, res, a) ==
    LET c == deepcopy(h, a) IN
    [heap |-> c.heap,
     resources |-> IF res[h[a].id] = NoRef THEN [res EXCEPT ![h[a].id] = c.ref] ELSE res]
InMemory_save(h, res, a) ==
    LET c == deepcopy(h, a) IN
    [heap |-> c.heap, resources |-> [res EXCEPT ![h[a].id] = c.ref]]

InMemory_get(h, res, id) ==
    IF res[id] = NoRef
    THEN [ok |-> FALSE, exc |-> "KeyError", heap |-> h, ref |-> NoRef]
    ELSE LET c == deepcopy(h, res[id]) IN
         [ok |-> TRUE, exc |-> None, heap |-> c.heap, ref |-> c.ref]

\* JsonFileResourceRepository
JsonFile_save_first(h, res, a) ==
    LET c == deepcopy(h, a) IN
    [heap |-> c.heap,
     resources |-> IF res[h[a].id] = NoRef THEN [res EXCEPT ![h[a].id] = c.ref] ELSE res]
JsonFile_save(h, res, a) ==
    LET c == deepcopy(h, a) IN
    [heap |-> c.heap, resources |-> [res EXCEPT ![h[a].id] = c.ref]]

JsonFile_get(h, res, id) ==
    IF res[id] = NoRef
    THEN [ok |-> FALSE, exc |-> "KeyError", heap |-> h, ref |-> NoRef]
    ELSE LET c == deepcopy(h, res[id]) IN
         [ok |-> TRUE, exc |-> None, heap |-> c.heap, ref |-> c.ref]

\* load_from_path: every entry of the document becomes a Resource, the first
\* failing entry aborts the load
RECURSIVE load_entries(_, _, _)
load_entries(h, res, entries) ==
    IF entries = {} THEN [ok |-> TRUE, exc |-> None, heap |-> h, resources |-> res]
    ELSE LET e == CHOOSE x \in entries : TRUE
             uuid == UUID(e.key)
             t == ResourceType(e.type)
             r == Resource([id |-> uuid.value, name |-> e.name, type |-> t.value])
         IN IF ~uuid.ok THEN [ok |-> FALSE, exc |-> uuid.exc, heap |-> h, resources |-> res]
            ELSE IF ~t.ok THEN [ok |-> FALSE, exc |-> t.exc, heap |-> h, resources |-> res]
            ELSE IF ~r.ok THEN [ok |-> FALSE, exc |-> r.exc, heap |-> h, resources |-> res]
            ELSE load_entries(Append(h, r.value),
                              [res EXCEPT ![uuid.value] = Len(h) + 1],
                              entries \ {e})

load_from_path(h, res, doc) == load_entries(h, res, doc)

\* JsonFileResourceRepository.__init__(path)
JsonFileResourceRepository(h, fs, path) ==
    LET l == load_from_path(h, EmptyDict, fs[path]) IN
    [ok |-> l.ok, exc |-> l.exc, heap |-> l.heap, path |-> path, resources |-> l.resources]

\* the dict write_to_path serializes: str(id) -> {name, type value}, no comment
to_disk(h, res) ==
    {[key |-> UuidStr[h[res[i]].id], name |-> h[res[i]].name,
      type |-> ResourceTypeValue[h[res[i]].type]]
        : i \in Keys(res)}

\* write_to_path(path=None): the remembered path and the files afterwards
write_to_path_keep(h, res, remembered, path, fs) ==
    LET target == IF path # None THEN path ELSE remembered IN
    [path |-> remembered, files |-> [fs EXCEPT ![target] = to_disk(h, res)]]
write_to_path(h, res, remembered, path, fs) ==
    LET target == IF path # None THEN path ELSE remembered IN
    [path |-> target, files |-> [fs EXCEPT ![target] = to_disk(h, res)]]

\* ResourceRepository: the two implementations behind one interface
repo_get(kind, h, res, id) ==
    IF kind = "mem" THEN InMemory_get(h, res, id) ELSE JsonFile_get(h, res, id)
repo_save(kind, h, res, a) ==
    IF kind = "mem" THEN InMemory_save(h, res, a) ELSE JsonFile_save(h, res, a)

\* UpdateName(id=..., name=...): pydantic parses a str id, ValidationError
\* if it is no UUID
UpdateName(idstr, name) ==
    LET u == UUID(idstr) IN
    IF u.ok THEN [ok |-> TRUE, exc |-> None, id |-> u.value, name |-> name]
    ELSE [ok |-> FALSE, exc |-> "ValidationError", id |-> 0, name |-> name]

\* UpdatingName.execute
execute_no_save(kind, h, res, id, name) ==
    LET g == repo_get(kind, h, res, id) IN
    IF ~g.ok THEN [ok |-> FALSE, exc |-> g.exc, heap |-> h, resources |-> res]
    ELSE [ok |-> TRUE, exc |-> None, heap |-> set_name(g.heap, g.ref, name), resources |-> res]
execute(kind, h, res, id, name) ==
    LET g == repo_get(kind, h, res, id) IN
    IF ~g.ok THEN [ok |-> FALSE, exc |-> g.exc, heap |-> h, resources |-> res]
    ELSE LET s == repo_save(kind, set_name(g.heap, g.ref, name), res, g.ref) IN
         [ok |-> TRUE, exc |-> None, heap |-> s.heap, resources |-> s.resources]

\* CommandBus
EmptyBus == [t \in CmdTypes |-> NoHandler]

register_first(cmp, t, handler) == IF cmp[t] = NoHandler THEN [cmp EXCEPT ![t] = handler] ELSE cmp
register(cmp, t, handler) == [cmp EXCEPT ![t] = handler]

\* dispatch: the handler of type(cmd) executes cmd; every handler is an
\* UpdatingName over the repository
dispatch_lenient(cmp, t, kind, h, res, id, name) ==
    IF cmp[t] = NoHandler
    THEN [ok |-> TRUE, exc |-> None, heap |-> h, resources |-> res, invoked |-> <<>>]
    ELSE LET e == execute(kind, h, res, id, name) IN
         [ok |-> e.ok, exc |-> e.exc, heap |-> e.heap, resources |-> e.resources,
          invoked |-> <<cmp[t]>>]
dispatch(cmp, t, kind, h, res, id, name) ==
    IF cmp[t] = NoHandler
    THEN [ok |-> FALSE, exc |-> "KeyError", heap |-> h, resources |-> res, invoked |-> <<>>]
    ELSE LET e == execute(kind, h, res, id, name) IN
         [ok |-> e.ok, exc |-> e.exc, heap |-> e.heap, resources |-> e.resources,
          invoked |-> <<cmp[t]>>]

\* command-line front ends: what one run of "<json_path> update-name <rest>"
\* does.  status is the exit status of the process (an uncaught exception
\* also ends it with status 1, after a traceback instead of the message),
\* printed is what the program prints itself, used tells whether the use
\* case was executed.
MissingMessage == "You must give resource_id and name"
UpdatedMessage == "resource updated"

Outcome(status, exc, printed, used) ==
    [status |-> status, exc |-> exc, printed |-> printed, used |-> used]

Min(a, b) == IF a < b THEN a ELSE b

\* examples/app.py: update_name(rest, json_path)
app_update_name(fs, path, rest) ==
    LET first == SubSeq(rest, 1, Min(1, Len(rest))) IN     \* rest[:1]
    IF Len(first) # 2 THEN Outcome(1, "ValueError", None, FALSE)
    ELSE LET resource_id == first[1]
             name == first[2]
             r == JsonFileResourceRepository(<<>>, fs, path)
             dto == UpdateName(resource_id, name)
             e == execute("json", r.heap, r.resources, dto.id, dto.name)
         IN IF resource_id = "" \/ name = "" THEN Outcome(1, "SystemExit", MissingMessage, FALSE)
            ELSE IF ~r.ok THEN Outcome(1, r.exc, None, FALSE)
            ELSE IF ~dto.ok THEN Outcome(1, dto.exc, None, FALSE)
            ELSE IF ~e.ok THEN Outcome(1, e.exc, None, TRUE)
            ELSE Outcome(0, None, UpdatedMessage, TRUE)

\* resources/main.py: bootstrap_app(json_path), the repository and the bus
\* with the UpdatingName handler registered for UpdateName
bootstrap_app(fs, path) ==
    LET r == JsonFileResourceRepository(<<>>, fs, path) IN
    [ok |-> r.ok, exc |-> r.exc, heap |-> r.heap, resources |-> r.resources,
     command_bus |-> register(EmptyBus, "UpdateName", "handler1")]

\* examples/app_cqrs.py: main() for update-name, bootstrap_app first and
\* then update_name(rest, app_context)
app_cqrs_update_name(fs, path, rest) ==
    LET ctx == bootstrap_app(fs, path) IN
    IF ~ctx.ok THEN Outcome(1, ctx.exc, None, FALSE)
    ELSE IF Len(rest) < 2 THEN Outcome(1, "ValueError", None, FALSE)
    ELSE LET resource_id == rest[1]
             name == rest[2]
             dto == UpdateName(resource_id, name)
             d == dispatch(ctx.command_bus, "UpdateName", "json", ctx.heap,
                           ctx.resources, dto.id, dto.name)
         IN IF resource_id = "" \/ name = "" THEN Outcome(1, "SystemExit", MissingMessage, FALSE)
            ELSE IF ~dto.ok THEN Outcome(1, dto.exc, None, FALSE)
            ELSE IF ~d.ok THEN Outcome(1, d.exc, None, d.invoked # <<>>)
            ELSE Outcome(0, None, UpdatedMessage, TRUE)

(***************************************************************************)
(* Inputs                                                                  *)
(***************************************************************************)
EmptyDoc == {}
\* the store of the integration test and of the end-to-end example
FixtureDoc == {[key |-> UuidStr[1], name |-> "NOT SET", type |-> "lexicon"]}

\* keyword arguments of the Resource(...) calls of the tests
ResourceCalls ==
    { [id |-> 1, name |-> "Lexicon Rex", type_ |-> "lexicon"],
      [id |-> 1, name |-> "Lexicon Rex", type_ |-> "Corpus", comment |-> "Comment"],
      [id |-> 2, name |-> "Lexicon Rex", type_ |-> "lexicon", comment |-> "Comment"],
      [id |-> 1, name |-> "RANDOM", type |-> "Lexicon"] }

CliWords == {"", UuidStr[1], "Lexicon Royale"}
CliArgs == {<<>>} \cup {<<a>> : a \in CliWords} \cup {<<a, b>> : a, b \in CliWords}
              \cup {<<UuidStr[1], "Lexicon Royale", "extra">>}

(***************************************************************************)
(* State                                                                   *)
(***************************************************************************)
VARIABLES
    heap,       \* the Resource objects
    repo,       \* the repository: kind, exists, _path, _resources
    cur,        \* the Resource the caller holds (address, NoRef if none)
    files,      \* path -> JSON document
    cmp_map,    \* CommandBus._cmp_map
    last,       \* the last call and its outcome
    lastSaved,  \* id -> the argument of the last save with that id ({} if none)
    lastReg,    \* command type -> handler of the last register call
    reRegistered, \* the command types registered more than once
    steps

vars == <<heap, repo, cur, files, cmp_map, last, lastSaved, lastReg, reRegistered, steps>>

NoCall ==
    [op |-> "none", result |-> None, id |-> 0, name |-> None, path |-> None,
     type |-> None, rest |-> <<>>, invoked |-> <<>>, out |-> Outcome(0, None, None, FALSE)]

Result(r) == IF r.ok THEN "ok" ELSE r.exc

Init ==
    /\ heap = <<>>
    /\ \E k \in Kinds :
          repo = [kind |-> k, exists |-> (k = "mem"), path |-> None, loaded |-> None,
                  resources |-> EmptyDict]
    /\ cur = NoRef
    /\ files \in [Paths -> {EmptyDoc, FixtureDoc}]
    /\ repo.kind = "mem" => files = [p \in Paths |-> EmptyDoc]
    /\ cmp_map = EmptyBus
    /\ last = NoCall
    /\ lastSaved = [i \in UUIDs |-> {}]
    /\ lastReg = [t \in CmdTypes |-> NoHandler]
    /\ reRegistered = {}
    /\ steps = 0

Tick == steps < MaxSteps /\ steps' = steps + 1

\* repo = JsonFileResourceRepository(path)
Construct(p) ==
    /\ Tick
    /\ repo.kind = "json" /\ ~repo.exists
    /\ LET r == JsonFileResourceRepository(heap, files, p) IN
       /\ last' = [NoCall EXCEPT !.op = "construct", !.path = p, !.result = Result(r)]
       /\ IF r.ok
          THEN /\ heap' = r.heap
               /\ repo' = [repo EXCEPT !.exists = TRUE, !.path = r.path, !.loaded = p,
                                       !.resources = r.resources]
          ELSE UNCHANGED <<heap, repo>>
    /\ UNCHANGED <<cur, files, cmp_map, lastSaved, lastReg, reRegistered>>

\* cur = Resource(**kw)
NewResource(kw) ==
    /\ Tick
    /\ LET r == Resource(kw) IN
       /\ last' = [NoCall EXCEPT !.op = "new", !.result = Result(r)]
       /\ IF r.ok
          THEN heap' = Append(heap, r.value) /\ cur' = Len(heap) + 1
          ELSE UNCHANGED <<heap, cur>>
    /\ UNCHANGED <<repo, files, cmp_map, lastSaved, lastReg, reRegistered>>

\* cur = repo.get(id)
Get(id) ==
    /\ Tick
    /\ repo.exists
    /\ LET g == repo_get(repo.kind, heap, repo.resources, id) IN
       /\ last' = [NoCall EXCEPT !.op = "get", !.id = id, !.result = Result(g)]
       /\ heap' = g.heap
       /\ cur' = IF g.ok THEN g.ref ELSE cur
    /\ UNCHANGED <<repo, files, cmp_map, lastSaved, lastReg, reRegistered>>

\* repo.save(cur)
Save ==
    /\ Tick
    /\ repo.exists /\ cur # NoRef
    /\ LET s == repo_save(repo.kind, heap, repo.resources, cur) IN
       /\ heap' = s.heap
       /\ repo' = [repo EXCEPT !.resources = s.resources]
    /\ last' = [NoCall EXCEPT !.op = "save", !.id = heap[cur].id, !.result = "ok"]
    /\ lastSaved' = [lastSaved EXCEPT ![heap[cur].id] = {heap[cur]}]
    /\ UNCHANGED <<cur, files, cmp_map, lastReg, reRegistered>>

\* cur.set_name(name)
SetName(name) ==
    /\ Tick
    /\ cur # NoRef
    /\ heap' = set_name(heap, cur, name)
    /\ last' = [NoCall EXCEPT !.op = "set_name", !.name = name, !.result = "ok"]
    /\ UNCHANGED <<repo, cur, files, cmp_map, lastSaved, lastReg, reRegistered>>

\* what a successful rename saves: the stored resource under the new name
Renamed(id, name) == [heap[repo.resources[id]] EXCEPT !.name = name]

\* UpdatingName(repo).execute(UpdateName(id=id, name=name))
Execute(id, name) ==
    /\ Tick
    /\ repo.exists
    /\ LET e == execute(repo.kind, heap, repo.resources, id, name) IN
       /\ heap' = e.heap
       /\ repo' = [repo EXCEPT !.resources = e.resources]
       /\ last' = [NoCall EXCEPT !.op = "execute", !.id = id, !.name = name,
                                 !.result = Result(e)]
       /\ lastSaved' = IF e.ok THEN [lastSaved EXCEPT ![id] = {Renamed(id, name)}]
                       ELSE lastSaved
    /\ UNCHANGED <<cur, files, cmp_map, lastReg, reRegistered>>

\* repo.write_to_path(p), p = None for write_to_path()
WriteToPath(p) ==
    /\ Tick
    /\ repo.kind = "json" /\ repo.exists
    /\ LET w == write_to_path(heap, repo.resources, repo.path, p, files) IN
       /\ repo' = [repo EXCEPT !.path = w.path]
       /\ files' = w.files
    /\ last' = [NoCall EXCEPT !.op = "write_to_path", !.path = p, !.result = "ok"]
    /\ UNCHANGED <<heap, cur, cmp_map, lastSaved, lastReg, reRegistered>>

\* JsonFileResourceRepository(p).get(id) on a new repository object
FreshGet(p, id) ==
    /\ Tick
    /\ repo.kind = "json"
    /\ LET r == JsonFileResourceRepository(<<>>, files, p)
           g == JsonFile_get(r.heap, r.resources, id)
       IN last' = [NoCall EXCEPT !.op = "fresh_get", !.path = p, !.id = id,
                      !.result = IF ~r.ok THEN r.exc ELSE Result(g),
                      !.name = IF r.ok /\ g.ok THEN g.heap[g.ref].name ELSE None]
    /\ UNCHANGED <<heap, repo, cur, files, cmp_map, lastSaved, lastReg, reRegistered>>

\* command_bus.register(t, handler), handler an UpdatingName(repo)
Register(t, handler) ==
    /\ Tick
    /\ repo.exists
    /\ cmp_map' = register(cmp_map, t, handler)
    /\ lastReg' = [lastReg EXCEPT ![t] = handler]
    /\ reRegistered' = IF lastReg[t] # NoHandler THEN reRegistered \cup {t} ELSE reRegistered
    /\ last' = [NoCall EXCEPT !.op = "register", !.type = t, !.result = "ok"]
    /\ UNCHANGED <<heap, repo, cur, files, lastSaved>>

\* command_bus.dispatch(cmd), cmd of type t with fields id and name
Dispatch(t, id, name) ==
    /\ Tick
    /\ LET d == dispatch(cmp_map, t, repo.kind, heap, repo.resources, id, name) IN
       /\ heap' = d.heap
       /\ repo' = [repo EXCEPT !.resources = d.resources]
       /\ last' = [NoCall EXCEPT !.op = "dispatch", !.type = t, !.id = id, !.name = name,
                                 !.result = Result(d), !.invoked = d.invoked]
       /\ lastSaved' = IF d.ok /\ d.invoked # <<>>
                       THEN [lastSaved EXCEPT ![id] = {Renamed(id, name)}]
                       ELSE lastSaved
    /\ UNCHANGED <<cur, files, cmp_map, lastReg, reRegistered>>

\* python examples/app.py p update-name rest...
App(p, rest) ==
    /\ Tick
    /\ repo.kind = "json"
    /\ last' = [NoCall EXCEPT !.op = "app", !.path = p, !.rest = rest,
                              !.out = app_update_name(files, p, rest)]
    /\ UNCHANGED <<heap, repo, cur, files, cmp_map, lastSaved, lastReg, reRegistered>>

\* python examples/app_cqrs.py p update-name rest...
AppCqrs(p, rest) ==
    /\ Tick
    /\ repo.kind = "json"
    /\ last' = [NoCall EXCEPT !.op = "app_cqrs", !.path = p, !.rest = rest,
                              !.out = app_cqrs_update_name(files, p, rest)]
    /\ UNCHANGED <<heap, repo, cur, files, cmp_map, lastSaved, lastReg, reRegistered>>

Next ==
    \/ \E p \in Paths : Construct(p)
    \/ \E kw \in ResourceCalls : NewResource(kw)
    \/ \E id \in UUIDs : Get(id)
    \/ Save
    \/ \E n \in Names : SetName(n)
    \/ \E id \in UUIDs, n \in Names : Execute(id, n)
    \/ \E p \in Paths \cup {None} : WriteToPath(p)
    \/ \E t \in CmdTypes, h \in Handlers : Register(t, h)
    \/ \E t \in CmdTypes, id \in UUIDs, n \in Names : Dispatch(t, id, n)

Spec == Init /\ [][Next]_vars

\* the readers of the files a repository has written: a new repository
\* object and the command-line programs, each run a process of its own
NextCli ==
    \/ \E p \in Paths : Construct(p)
    \/ \E kw \in ResourceCalls : NewResource(kw)
    \/ Save
    \/ \E p \in Paths \cup {None} : WriteToPath(p)
    \/ \E p \in Paths, id \in UUIDs : FreshGet(p, id)
    \/ \E p \in Paths, rest \in CliArgs : App(p, rest)
    \/ \E p \in Paths, rest \in CliArgs : AppCqrs(p, rest)

SpecCli == Init /\ [][NextCli]_vars

TypeOK ==
    /\ cur \in 0..Len(heap)
    /\ \A i \in UUIDs : repo.resources[i] \in 0..Len(heap)

(***************************************************************************)
(* Properties                                                              *)
(***************************************************************************)

\* what repo.get(i) returns for every id: the set holding the fields of
\* the returned Resource, empty if the call raises
GetView ==
    [i \in UUIDs |->
        LET g == repo_get(repo.kind, heap, repo.resources, i) IN
        IF g.ok THEN {g.heap[g.ref]} ELSE {}]

\* what a new JsonFileResourceRepository over path p holds
FreshView(p) ==
    LET r == JsonFileResourceRepository(<<>>, files, p) IN
    [ok |-> r.ok,
     view |-> [i \in UUIDs |->
                  LET g == JsonFile_get(r.heap, r.resources, i) IN
                  IF r.ok /\ g.ok THEN {g.heap[g.ref]} ELSE {}]]

\* C1: for both repository implementations and every id the repository
\* holds, execute(UpdateName(id, name)) completes and get(id) then returns
\* a resource with the command's name and with the id and type it had before
C1_RenameStep ==
    (last'.op = "execute" /\ repo.resources[last'.id] # NoRef) =>
        /\ last'.result = "ok"
        /\ \E before \in GetView[last'.id], after \in GetView'[last'.id] :
              /\ after.name = last'.name
              /\ after.id = last'.id /\ after.id = before.id
              /\ after.type = before.type
C1_Thm == [][C1_RenameStep]_vars

C1_Wit ==
    /\ last.op = "execute" /\ last.result = "ok" /\ repo.kind = "json"
    /\ \E r \in GetView[last.id] : r.name = "Lexicon Royale" /\ r.type = "Lexicon"

\* C2: after execute(UpdateName(id, name)) on a JsonFileResourceRepository,
\* a new JsonFileResourceRepository over the same path returns from get(id)
\* a resource with the command's name
C2_Claim ==
    (repo.kind = "json" /\ last.op = "execute" /\ last.result = "ok") =>
        /\ FreshView(repo.path).ok
        /\ \E r \in FreshView(repo.path).view[last.id] : r.name = last.name

\* C3: set_name on a Resource the caller holds (returned by get, or passed
\* to save before) does not change what get returns for any id
C3_SetNameStep == (last'.op = "set_name") => (GetView' = GetView)
C3_Thm == [][C3_SetNameStep]_vars

C3_Wit ==
    /\ last.op = "set_name" /\ cur # NoRef
    /\ \E r \in GetView[heap[cur].id] : r.name # heap[cur].name /\ r.name # last.name

\* C4: get(id) returns the id, name, type and comment of the most recent
\* save of a resource with that id and fails if there was none; a save of a
\* resource with another id leaves what get(id) returns unchanged
C4_Upsert ==
    \A i \in UUIDs : GetView[i] = lastSaved[i] /\ \A r \in GetView[i] : r.id = i
C4_SaveStep ==
    (last'.op = "save") =>
        /\ GetView'[last'.id] = {heap[cur]}
        /\ \A i \in UUIDs \ {last'.id} : GetView'[i] = GetView[i]
C4_Thm == []C4_Upsert /\ [][C4_SaveStep]_vars

C4_Wit ==
    /\ last.op = "save" /\ repo.kind = "mem"
    /\ \E r \in GetView[1] : r.name = "Lexicon Royale" /\ r.comment = "Comment"
    /\ GetView[2] # {}

\* C5: after write_to_path, a new JsonFileResourceRepository over the
\* written path holds the same ids, each with the same id, name and type,
\* and with no comment
C5_Claim ==
    (last.op = "write_to_path") =>
        /\ FreshView(repo.path).ok
        /\ \A i \in UUIDs :
              /\ (FreshView(repo.path).view[i] = {}) <=> (GetView[i] = {})
              /\ \A a \in GetView[i], b \in FreshView(repo.path).view[i] :
                    b.id = a.id /\ b.name = a.name /\ b.type = a.type /\ b.comment = None

\* C6: get of an id the repository does not hold fails, dispatch of a
\* command whose type has no handler fails without invoking a handler; both
\* leave the repository contents and the dispatch table unchanged
C6_FailStep ==
    /\ (last'.op = "get" /\ repo.resources[last'.id] = NoRef) =>
          /\ last'.result = "KeyError"
          /\ GetView' = GetView /\ cmp_map' = cmp_map
    /\ (last'.op = "dispatch" /\ cmp_map[last'.type] = NoHandler) =>
          /\ last'.result = "KeyError" /\ last'.invoked = <<>>
          /\ GetView' = GetView /\ cmp_map' = cmp_map
C6_Thm == [][C6_FailStep]_vars

C6_Wit ==
    /\ last.op = "dispatch" /\ last.result = "KeyError" /\ last.invoked = <<>>
    /\ cmp_map[last.type] = NoHandler
    /\ \E t \in CmdTypes : cmp_map[t] # NoHandler
    /\ GetView[last.id] # {}

\* C7: "<json_path> update-name <resource_id> <name>" executes the use case
\* when resource_id and name are both given, and otherwise (empty or not
\* supplied) prints the message and exits with status 1 without executing it
C7_Given(k) == Len(last.rest) >= k /\ last.rest[k] # ""
C7_Claim ==
    (last.op \in {"app", "app_cqrs"}) =>
        IF C7_Given(1) /\ C7_Given(2)
        THEN last.out.used
        ELSE last.out.status = 1 /\ last.out.printed = MissingMessage /\ ~last.out.used

\* C8: the dispatch table holds for every command type the handler of the
\* last register call, and dispatch(cmd) runs exactly that handler once and
\* no other; registering a type again replaces the handler without an error
C8_Thm ==
    /\ cmp_map = lastReg
    /\ (last.op = "register") => (last.result = "ok")
    /\ (last.op = "dispatch") =>
          last.invoked = IF lastReg[last.type] = NoHandler THEN <<>>
                         ELSE <<lastReg[last.type]>>

C8_Wit ==
    /\ last.op = "dispatch" /\ last.type \in reRegistered
    /\ last.invoked = <<"handler2">> /\ last.result = "ok"

\* C9: write_to_path(p) writes the serialized mapping to p and remembers p,
\* write_to_path() writes to the remembered path; no other file changes,
\* and the remembered path is the loaded one until a write_to_path(p)
C9_WriteStep ==
    /\ (last'.op = "write_to_path") =>
          LET target == IF last'.path # None THEN last'.path ELSE repo.path IN
          /\ files'[target] = to_disk(heap, repo.resources)
          /\ repo'.path = target
          /\ \A q \in Paths \ {target} : files'[q] = files[q]
    /\ (last'.op = "construct" /\ last'.result = "ok") => (repo'.path = last'.path)
    /\ (last'.op \notin {"write_to_path", "construct"}) => (repo'.path = repo.path)
C9_Thm == [][C9_WriteStep]_vars

C9_Wit ==
    /\ last.op = "write_to_path" /\ last.path = None
    /\ repo.loaded = "resources.json" /\ repo.path = "other.json"
    /\ files["other.json"] # {} /\ files["other.json"] = to_disk(heap, repo.resources)
    /\ files["resources.json"] # files["other.json"]

\* C10: a successful execute keeps the set of ids, every other resource,
\* and the target's id, type and comment; a failed execute changes nothing
C10_ExecuteStep ==
    (last'.op = "execute") =>
        /\ Keys(repo'.resources) = Keys(repo.resources)
        /\ \A i \in UUIDs \ {last'.id} : GetView'[i] = GetView[i]
        /\ IF last'.result = "ok"
           THEN \E before \in GetView[last'.id], after \in GetView'[last'.id] :
                   /\ after.id = before.id /\ after.type = before.type
                   /\ after.comment = before.comment
           ELSE GetView' = GetView
C10_Thm == [][C10_ExecuteStep]_vars

C10_Wit ==
    /\ last.op = "execute" /\ last.result = "ok"
    /\ Keys(repo.resources) = UUIDs
    /\ \E r \in GetView[last.id] : r.comment = "Comment" /\ r.name = "Lexicon Royale"
====
